---- MODULE Spec2Model ----
(***************************************************************************)
(* Model of genawaiter's heap generator, rc::Gen (src/rc/generator.rs).    *)
(*                                                                         *)
(* A Gen owns a pinned future (the body) and an Rc handle on the airlock,  *)
(* the Exchange Cell it shares with the Co handed to the body.             *)
(* resume_with stores Next::Resume(arg) in the airlock and calls           *)
(* engine::advance, which polls the future once and turns the outcome of   *)
(* the poll into a GeneratorState.  rc/engine.rs (Next, Co::yield_, the    *)
(* future yield_ returns, advance) is not part of src/rc/generator.rs; it  *)
(* is modelled from sections 4.1-4.3 of the specification.                 *)
(***************************************************************************)
EXTENDS Integers, Sequences, FiniteSets, TLC

\* ------------------------------------------------------------------ bounds
\* The largest number of step calls made on one generator.
MaxSteps == 4
\* The largest number of suspend calls in a scripted body.
MaxYields == 2

\* ------------------------------------------------------------- value sets
\* The generators of the model and the heap cells Rc::new can hand out.
Gens == {1, 2}
Cells == {1, 2, 3, 4}
\* The single value of the resume type ().
UnitVal == 0
\* Resume arguments of a generator whose resume type carries information.
ArgVals == {0, 3, 5, 10, 20}
\* Values a scripted body passes to Co::yield_, and values a body returns.
YieldVals == {1, 2}
RetVals == {42}

VARIABLES
    alive,      \* alive[g]: "none" (never constructed), "live", "dropped"
    rtype,      \* rtype[g]: the resume type R of the Gen, "unit" or "int"
    airlock,    \* airlock[g]: the cell Gen.airlock points to
    co,         \* co[g]: the cell the body's Co.airlock points to
    cells,      \* cells[c]: the content of heap cell c, a Next value
    future,     \* future[g]: the pinned future: the body and where it stands
    pc,         \* pc[g]: position of the driver inside resume_with
    arg,        \* arg[g]: the argument of the step call in progress
    out,        \* out[g]: what the poll of the future returned
    via,        \* via[g]: the entry point of the last step call
    args,       \* args[g]: the arguments of the step calls made, in order
    results,    \* results[g]: what the step calls returned, in order
    received,   \* received[g]: what the body's suspend calls returned, in order
    yielded     \* yielded[g]: what the body passed to suspend, in order

vars == <<alive, rtype, airlock, co, cells, future, pc, arg, out, via,
          args, results, received, yielded>>

\* ------------------------------------------------------ the Exchange Cell
\* enum Next { Empty, Yield(Y), Resume(R) }
NextEmpty == [tag |-> "Empty", val |-> 0]
NextYield(y) == [tag |-> "Yield", val |-> y]
NextResume(r) == [tag |-> "Resume", val |-> r]

\* GeneratorState, and the unwinding of a step call that panicked.
Yielded(y) == [tag |-> "Yielded", val |-> y]
Completed(v) == [tag |-> "Completed", val |-> v]
Panicked == [tag |-> "Panic", val |-> 0]

\* What a poll of the future hands back to advance.
PollNone == [tag |-> "None", val |-> 0]
PollPending == [tag |-> "Pending", val |-> 0]
PollReady(v) == [tag |-> "Ready", val |-> v]

\* ---------------------------------------------------------------- bodies
BoundedSeq(S, n) == UNION {[1..k -> S] : k \in 0..n}

\* A body that calls suspend with each value of ys in turn, then returns ret.
ScriptBodies ==
    {[kind |-> "script", ys |-> s, ret |-> r] :
        s \in BoundedSeq(YieldVals, MaxYields), r \in RetVals}

\* A body that suspends in a loop: n = suspend(first); while n # 0 the body
\* adds n*2 to its accumulator and n = suspend(n*2); it returns the accumulator.
EchoBodies ==
    {[kind |-> "echo", ys |-> <<y>>, ret |-> 0] : y \in YieldVals}

\* The next thing a running body does: suspend with a value, or return one.
\* f is the future: f.pos suspend calls made so far, f.last the value the
\* last of them returned, f.acc the accumulator.
BodyOp(f) ==
    IF f.body.kind = "script"
    THEN IF f.pos < Len(f.body.ys)
         THEN [op |-> "yield", val |-> f.body.ys[f.pos + 1]]
         ELSE [op |-> "return", val |-> f.body.ret]
    ELSE IF f.pos = 0
         THEN [op |-> "yield", val |-> f.body.ys[1]]
         ELSE IF f.last = 0
              THEN [op |-> "return", val |-> f.acc]
              ELSE [op |-> "yield", val |-> f.last * 2]

\* The accumulator of the echo body after it was handed n.
BodyAcc(f, n) ==
    IF f.body.kind = "echo" /\ n # 0 THEN f.acc + n * 2 ELSE f.acc

\* The arguments a step call on g can carry.
RVals(g) == IF rtype[g] = "unit" THEN {UnitVal} ELSE ArgVals

\* ------------------------------------------------------------ Gen::new
\* let airlock = Rc::new(RefCell::new(Next::Empty))
\* (every Gen::new handing out one and the same cell)
NewCellShared(g) == 1
NewCell(g) == g
\* (a cell that starts with a resume argument already in it)
NewCellContentStale == NextResume(UnitVal)
NewCellContent == NextEmpty
\* let airlock = airlock.clone(); start(Co { airlock })
\* (the body's handle built on a cell of its own instead of a clone)
CoCellFresh(g) == g + 2
CoCell(g) == NewCell(g)
\* Box::pin(start(Co { airlock })): the future is built, not polled.
\* (the constructor starting the body instead of leaving it to the first step)
NewFutureEager(b) ==
    [body |-> b, state |-> "running", pos |-> 0, last |-> 0, acc |-> 0]
NewFuture(b) ==
    [body |-> b, state |-> "unstarted", pos |-> 0, last |-> 0, acc |-> 0]
NoFuture ==
    [body |-> [kind |-> "none", ys |-> <<>>, ret |-> 0],
     state |-> "none", pos |-> 0, last |-> 0, acc |-> 0]

\* The generators constructed before the run starts, with body and resume type.
Constructed(made, b, t) ==
    /\ alive = [g \in Gens |-> IF g \in made THEN "live" ELSE "none"]
    /\ rtype = t
    /\ airlock = [g \in Gens |-> NewCell(g)]
    /\ co = [g \in Gens |-> CoCell(g)]
    /\ cells = [c \in Cells |-> NewCellContent]
    /\ future = [g \in Gens |-> IF g \in made THEN NewFuture(b[g]) ELSE NoFuture]
    /\ pc = [g \in Gens |-> "idle"]
    /\ arg = [g \in Gens |-> 0]
    /\ out = [g \in Gens |-> PollNone]
    /\ via = [g \in Gens |-> "none"]
    /\ args = [g \in Gens |-> <<>>]
    /\ results = [g \in Gens |-> <<>>]
    /\ received = [g \in Gens |-> <<>>]
    /\ yielded = [g \in Gens |-> <<>>]

\* One generator, of any body and resume type (the echo body reads numbers).
Init ==
    \E b \in ScriptBodies \cup EchoBodies, t \in {"unit", "int"} :
        /\ b.kind = "echo" => t = "int"
        /\ Constructed({1}, [g \in Gens |-> b], [g \in Gens |-> t])

\* -------------------------------------------------------- Gen::resume_with
\* *self.airlock.borrow_mut() = Next::Resume(arg)
\* (the write left out; the argument replaced by a default; the wrong variant)
ResumeCellEmpty(a) == NextEmpty
ResumeCellDefault(a) == NextResume(UnitVal)
ResumeCellYield(a) == NextYield(a)
ResumeCell(a) == NextResume(a)

\* The write of line 50, after which advance is entered (line 51).
EnterEffect(g, a) ==
    /\ alive[g] = "live"
    /\ pc[g] = "idle"
    /\ Len(args[g]) < MaxSteps
    /\ a \in RVals(g)
    /\ cells' = [cells EXCEPT ![airlock[g]] = ResumeCell(a)]
    /\ pc' = [pc EXCEPT ![g] = "advance"]
    /\ arg' = [arg EXCEPT ![g] = a]
    /\ out' = [out EXCEPT ![g] = PollNone]
    /\ args' = [args EXCEPT ![g] = Append(@, a)]
    /\ UNCHANGED <<alive, rtype, airlock, co, future, results, received, yielded>>

\* A step call made through one of the three entry points.
Enter(g, a, entry) ==
    /\ EnterEffect(g, a)
    /\ via' = [via EXCEPT ![g] = entry]

ResumeWith(g, a) == Enter(g, a, "resume_with")

\* Gen::resume, for R = (): self.resume_with(())
\* (resume entering advance without the write resume_with makes)
ResumeNoWrite(g) ==
    /\ rtype[g] = "unit"
    /\ alive[g] = "live"
    /\ pc[g] = "idle"
    /\ Len(args[g]) < MaxSteps
    /\ pc' = [pc EXCEPT ![g] = "advance"]
    /\ arg' = [arg EXCEPT ![g] = UnitVal]
    /\ out' = [out EXCEPT ![g] = PollNone]
    /\ args' = [args EXCEPT ![g] = Append(@, UnitVal)]
    /\ via' = [via EXCEPT ![g] = "resume"]
    /\ UNCHANGED <<alive, rtype, airlock, co, cells, future, results,
                   received, yielded>>
Resume(g) ==
    /\ rtype[g] = "unit"
    /\ Enter(g, UnitVal, "resume")

\* <Gen as Coroutine>::resume_with: Self::resume_with(&mut *self, arg)
CoroutineResumeWith(g, a) == Enter(g, a, "coroutine")

\* ---------------------------------------------------------- engine::advance
\* The step call returns r to its caller.
Return(g, r) ==
    /\ results' = [results EXCEPT ![g] = Append(@, r)]
    /\ pc' = [pc EXCEPT ![g] = "idle"]

\* advance polls the future.  A future that was never polled starts its body;
\* a future paused in suspend re-enters it: suspend reads and removes what is
\* in the cell, which must be a ResumeValue, and returns it to the body; a
\* future that already finished cannot be polled again.
Poll(g) ==
    /\ alive[g] = "live"
    /\ pc[g] = "advance"
    /\ \/ /\ future[g].state = "unstarted"
          /\ future' = [future EXCEPT ![g].state = "running"]
          /\ pc' = [pc EXCEPT ![g] = "polling"]
          /\ UNCHANGED <<cells, received, results>>
       \/ /\ future[g].state = "suspended"
          /\ cells[co[g]].tag = "Resume"
          /\ future' = [future EXCEPT ![g].state = "running",
                                      ![g].last = cells[co[g]].val,
                                      ![g].acc = BodyAcc(future[g], cells[co[g]].val)]
          /\ received' = [received EXCEPT ![g] = Append(@, cells[co[g]].val)]
          /\ cells' = [cells EXCEPT ![co[g]] = NextEmpty]
          /\ pc' = [pc EXCEPT ![g] = "polling"]
          /\ UNCHANGED results
       \/ /\ future[g].state = "suspended"
          /\ cells[co[g]].tag # "Resume"
          /\ future' = [future EXCEPT ![g].state = "panicked"]
          /\ cells' = [cells EXCEPT ![co[g]] = NextEmpty]
          /\ Return(g, Panicked)
          /\ UNCHANGED received
       \/ /\ future[g].state \in {"done", "panicked"}
          /\ Return(g, Panicked)
          /\ UNCHANGED <<cells, future, received>>
    /\ UNCHANGED <<alive, rtype, airlock, co, arg, out, via, args, yielded>>

\* The body runs to its next suspend call, which writes YieldValue(v) into the
\* cell and pauses the body (the poll returns not-yet-done), or to its end
\* (the poll returns the body's return value).
BodyRun(g) ==
    /\ alive[g] = "live"
    /\ pc[g] = "polling"
    /\ future[g].state = "running"
    /\ LET o == BodyOp(future[g]) IN
       \/ /\ o.op = "yield"
          /\ cells' = [cells EXCEPT ![co[g]] = NextYield(o.val)]
          /\ yielded' = [yielded EXCEPT ![g] = Append(@, o.val)]
          /\ future' = [future EXCEPT ![g].state = "suspended",
                                      ![g].pos = @ + 1]
          /\ out' = [out EXCEPT ![g] = PollPending]
       \/ /\ o.op = "return"
          /\ future' = [future EXCEPT ![g].state = "done"]
          /\ out' = [out EXCEPT ![g] = PollReady(o.val)]
          /\ UNCHANGED <<cells, yielded>>
    /\ pc' = [pc EXCEPT ![g] = "polled"]
    /\ UNCHANGED <<alive, rtype, airlock, co, arg, via, args, results, received>>

\* The poll returned.  Not-yet-done: advance takes the content of the cell,
\* which must be a YieldValue, and reports Yielded.  Done: advance reports
\* Completed with the return value and leaves the cell alone.
Finish(g) ==
    /\ alive[g] = "live"
    /\ pc[g] = "polled"
    /\ \/ /\ out[g].tag = "Pending"
          /\ cells[airlock[g]].tag = "Yield"
          /\ cells' = [cells EXCEPT ![airlock[g]] = NextEmpty]
          /\ Return(g, Yielded(cells[airlock[g]].val))
       \/ /\ out[g].tag = "Pending"
          /\ cells[airlock[g]].tag # "Yield"
          /\ cells' = [cells EXCEPT ![airlock[g]] = NextEmpty]
          /\ Return(g, Panicked)
       \/ /\ out[g].tag = "Ready"
          /\ Return(g, Completed(out[g].val))
          /\ UNCHANGED cells
    /\ UNCHANGED <<alive, rtype, airlock, co, future, arg, out, via, args,
                   received, yielded>>

\* ------------------------------------------------------------------- drop
\* The owner drops the Gen between two step calls: the boxed future and the
\* Gen's handle on the airlock go with it.
\* (a drop that re-enters the pending suspend call to tell the body)
DropNotifies(g) ==
    /\ alive[g] = "live"
    /\ pc[g] = "idle"
    /\ alive' = [alive EXCEPT ![g] = "dropped"]
    /\ future' = [future EXCEPT ![g].state =
                     IF @ = "suspended" THEN "done" ELSE @]
    /\ received' = [received EXCEPT ![g] =
                     IF future[g].state = "suspended"
                     THEN Append(@, UnitVal) ELSE @]
    /\ UNCHANGED <<rtype, airlock, co, cells, pc, arg, out, via,
                   args, results, yielded>>
Drop(g) ==
    /\ alive[g] = "live"
    /\ pc[g] = "idle"
    /\ alive' = [alive EXCEPT ![g] = "dropped"]
    /\ UNCHANGED <<rtype, airlock, co, cells, future, pc, arg, out, via,
                   args, results, received, yielded>>

Next ==
    \/ \E g \in Gens, a \in ArgVals \cup {UnitVal} : ResumeWith(g, a)
    \/ \E g \in Gens : Resume(g)
    \/ \E g \in Gens, a \in ArgVals \cup {UnitVal} : CoroutineResumeWith(g, a)
    \/ \E g \in Gens : Poll(g)
    \/ \E g \in Gens : BodyRun(g)
    \/ \E g \in Gens : Finish(g)
    \/ \E g \in Gens : Drop(g)

Spec == Init /\ [][Next]_vars

\* ------------------------------------------------- a caller that keeps stepping
\* One generator with a scripted body, owned by a caller that steps it as long
\* as it can and never drops it: a step call is synchronous, so a call that
\* was entered runs to its return, and the caller makes the next call.
InitScript ==
    \E b \in ScriptBodies, t \in {"unit", "int"} :
        Constructed({1}, [g \in Gens |-> b], [g \in Gens |-> t])

NextStepping ==
    \/ \E g \in Gens, a \in ArgVals \cup {UnitVal} : ResumeWith(g, a)
    \/ \E g \in Gens : Resume(g)
    \/ \E g \in Gens, a \in ArgVals \cup {UnitVal} : CoroutineResumeWith(g, a)
    \/ \E g \in Gens : Poll(g)
    \/ \E g \in Gens : BodyRun(g)
    \/ \E g \in Gens : Finish(g)

SpecStepping == InitScript /\ [][NextStepping]_vars /\ WF_vars(NextStepping)

\* ------------------------------------------------------------ two generators
\* Two generators constructed by two Gen::new calls, each with a body of its
\* own, stepped by resume_with in any interleaving (one after the other, or
\* one from inside the body of the other).
TwoBodies ==
    {[kind |-> "script", ys |-> <<>>, ret |-> 42],
     [kind |-> "script", ys |-> <<1, 2>>, ret |-> 42],
     [kind |-> "echo", ys |-> <<1>>, ret |-> 0]}
TwoArgs == {0, 3}

InitTwo ==
    \E b1 \in TwoBodies, b2 \in TwoBodies :
        Constructed({1, 2}, [g \in Gens |-> IF g = 1 THEN b1 ELSE b2],
                    [g \in Gens |-> "int"])

NextTwo ==
    \/ \E g \in Gens, a \in TwoArgs : ResumeWith(g, a)
    \/ \E g \in Gens : Poll(g)
    \/ \E g \in Gens : BodyRun(g)
    \/ \E g \in Gens : Finish(g)

SpecTwo == InitTwo /\ [][NextTwo]_vars

\* ================================================================= claims
\* The generators that were constructed.
Made == {g \in Gens : alive[g] # "none"}
\* The positions of the results of g with the given tag.
Tagged(g, t) == {i \in 1..Len(results[g]) : results[g][i].tag = t}
\* The value the body of g returns when it ends now.
ReturnValue(g) ==
    IF future[g].body.kind = "script" THEN future[g].body.ret ELSE future[g].acc

\* C1: the results of the step calls on a generator are zero or more Yielded
\* followed by at most one Completed; what follows a Completed is neither
\* Yielded nor Completed; every result before the Completed is Yielded; and
\* Completed is returned only once the body has run to its end, having made
\* every suspend call of its script.
C1_Alternation ==
    \A g \in Made : \A i \in 1..Len(results[g]) :
        /\ results[g][i].tag \in {"Yielded", "Completed"}
              => \A j \in 1..(i - 1) : results[g][j].tag = "Yielded"
        /\ results[g][i].tag = "Panic"
              => \E j \in 1..(i - 1) : results[g][j].tag = "Completed"
        /\ results[g][i].tag = "Completed"
              => /\ future[g].state = "done"
                 /\ Len(yielded[g]) = i - 1
                 /\ future[g].body.kind = "script"
                       => Len(yielded[g]) = Len(future[g].body.ys)

\* C1 witness: two Yielded, then Completed, then a call after the Completed.
C1_Witness ==
    \E g \in Made :
        /\ Len(results[g]) = 4
        /\ results[g][1].tag = "Yielded" /\ results[g][2].tag = "Yielded"
        /\ results[g][3].tag = "Completed" /\ results[g][4].tag = "Panic"

\* C2 (as stated): the value the body's n-th suspend call returns is the
\* argument of step n.
C2_Original ==
    \A g \in Made : \A n \in 1..Len(received[g]) :
        received[g][n] = args[g][n]

\* C2 (amended): the value the body's n-th suspend call returns is the
\* argument of step n+1, unchanged; the argument of step 1 reaches no
\* suspend call.
C2_Fidelity ==
    \A g \in Made :
        /\ Len(received[g]) < Len(args[g]) \/ args[g] = <<>>
        /\ \A n \in 1..Len(received[g]) : received[g][n] = args[g][n + 1]

\* C2 witness: two suspend calls have returned, after three steps whose
\* arguments all differ.
C2_Witness ==
    \E g \in Made :
        /\ Len(received[g]) = 2 /\ Len(args[g]) = 3
        /\ Cardinality({args[g][1], args[g][2], args[g][3]}) = 3

\* C3: a step call made while the body is paused in a suspend call hands the
\* re-entered suspend exactly ResumeValue(arg): that is what the cell holds
\* when the future is polled; once the suspend has returned, the cell is
\* Empty and the value the body got is arg.
C3_ResumeDelivered ==
    \A g \in Made :
        /\ (pc[g] = "advance" /\ future[g].state = "suspended")
              => cells[co[g]] = NextResume(arg[g])
        /\ (pc[g] = "polling" /\ future[g].pos > 0)
              => /\ cells[co[g]] = NextEmpty
                 /\ Len(received[g]) = future[g].pos
                 /\ received[g][Len(received[g])] = arg[g]
                 /\ future[g].last = arg[g]

\* C3 witness: the body yields 1, yields 2 and returns; resume(10) after
\* Yielded(1) and resume(20) after Yielded(2) make the suspends return 10, 20.
C3_Witness ==
    \E g \in Made :
        /\ yielded[g] = <<1, 2>>
        /\ received[g] = <<10, 20>>
        /\ Len(results[g]) = 3
        /\ results[g][1] = Yielded(1) /\ results[g][2] = Yielded(2)
        /\ results[g][3].tag = "Completed"

\* C4: a step call runs the body exactly to its next suspend call or to its
\* end.  When no step call is in progress the body is unstarted, paused in a
\* suspend call or finished; it has made as many suspend calls as steps have
\* returned Yielded; and the suspend call it is paused in has not returned:
\* the k-th suspend call returns, and the code after it runs, in step k+1.
C4_SingleStep ==
    \A g \in Made :
        /\ pc[g] = "idle"
              => /\ future[g].state \in {"unstarted", "suspended", "done"}
                 /\ future[g].state = "unstarted" <=> results[g] = <<>>
                 /\ Len(yielded[g]) = Cardinality(Tagged(g, "Yielded"))
        /\ future[g].state = "suspended"
              => /\ Len(yielded[g]) = future[g].pos
                 /\ Len(received[g]) = future[g].pos - 1
        /\ Len(yielded[g]) <= Len(args[g])
        /\ received[g] # <<>> => Len(received[g]) < Len(args[g])
        /\ (pc[g] = "idle" /\ results[g] # <<>>
               /\ results[g][Len(results[g])].tag = "Yielded")
              => /\ future[g].state = "suspended"
                 /\ future[g].pos = Len(results[g])

\* C4 witness: the step that returned the second Yielded has ended, and the
\* second suspend call has not returned to the body.
C4_Witness ==
    \E g \in Made :
        /\ pc[g] = "idle" /\ Len(results[g]) = 2
        /\ results[g][2].tag = "Yielded"
        /\ Len(yielded[g]) = 2 /\ Len(received[g]) = 1
        /\ future[g].state = "suspended"

\* C5 (as stated): the Exchange Cell is Empty whenever no step call is in
\* progress.
C5_Original ==
    \A g \in Made : pc[g] = "idle" => cells[airlock[g]] = NextEmpty

\* C5 (amended): the cell is Empty from construction to the first step, after
\* every step that returned Yielded and after a step that returned Completed
\* when the body had suspended before; after a first step in which the body
\* finished without a suspend call, and after a step call that failed, the
\* cell holds the ResumeValue of that call.
C5_EmptyBetweenSteps ==
    \A g \in Made : pc[g] = "idle" =>
        LET n == Len(results[g]) IN
        IF n = 0 \/ results[g][n].tag = "Yielded"
             \/ (results[g][n].tag = "Completed" /\ n > 1)
        THEN cells[airlock[g]] = NextEmpty
        ELSE cells[airlock[g]] = NextResume(args[g][n])

\* C5 witness: a generator between steps after Yielded, Yielded, Completed.
C5_Witness ==
    \E g \in Made :
        /\ pc[g] = "idle" /\ Len(results[g]) = 3
        /\ results[g][2].tag = "Yielded" /\ results[g][3].tag = "Completed"
        /\ cells[airlock[g]] = NextEmpty

\* The step that returned Completed, if one did (0 otherwise).
CompletedAt(g) ==
    IF Tagged(g, "Completed") = {} THEN 0
    ELSE CHOOSE i \in Tagged(g, "Completed") : TRUE

C6_TerminalState ==
    \A g \in Made : CompletedAt(g) > 0 =>
        LET k == CompletedAt(g) IN
        /\ \A j \in (k + 1)..Len(results[g]) : results[g][j] = Panicked
        /\ pc[g] = "idle" => Len(results[g]) = Len(args[g])
        /\ future[g].state = "done"
        /\ future[g].pos = k - 1
        /\ Len(yielded[g]) = k - 1 /\ Len(received[g]) = k - 1
        /\ Len(args[g]) > k
              => cells[airlock[g]] = NextResume(args[g][Len(args[g])])

C7_Original ==
    \A g \in Made :
        (future[g].body.kind = "echo" /\ args[g] = <<3, 5, 0>>
            /\ Len(results[g]) = 3)
        => /\ results[g][1] = Yielded(6)
           /\ results[g][2] = Yielded(10)
           /\ results[g][3].tag = "Completed"

\* The steps of g before step k that made the echo body finish.
EchoEnded(g, k) == {j \in 2..(k - 1) : args[g][j] = 0}

\* C7 (amended): the echo body stepped with 3, 5, 0 returns Yielded(y0),
\* Yielded(10), Completed, y0 being the value of the body's first suspend
\* call, which does not depend on the input 3; from the second step on, the
\* value a step yields is twice the input of that same step, and the step
\* whose input is 0 returns Completed.
C7_Echo ==
    \A g \in Made : future[g].body.kind = "echo" =>
        /\ Len(results[g]) >= 1 => results[g][1] = Yielded(future[g].body.ys[1])
        /\ \A k \in 2..Len(results[g]) :
              EchoEnded(g, k) = {} =>
                 IF args[g][k] = 0
                 THEN results[g][k].tag = "Completed"
                 ELSE results[g][k] = Yielded(2 * args[g][k])
        /\ (args[g] = <<3, 5, 0>> /\ Len(results[g]) = 3)
              => results[g] = <<Yielded(future[g].body.ys[1]), Yielded(10),
                                Completed(10)>>

\* C7 witness: the echo body after resume(3), resume(5), resume(0).
C7_Witness ==
    \E g \in Made :
        /\ future[g].body.kind = "echo"
        /\ args[g] = <<3, 5, 0>> /\ Len(results[g]) = 3
        /\ results[g][2] = Yielded(10)

\* C8: when the body runs to its end, the poll hands advance the body's
\* return value and the step call returns Completed of exactly that value;
\* the body writes nothing into the Exchange Cell on the way to its end: the
\* cell holds what the driver wrote if the body never suspended, and stays
\* Empty, as the re-entered suspend left it, otherwise; a body without a
\* suspend call makes the first step return Completed(return value).
C8_CompletedState ==
    \A g \in Made :
        /\ (pc[g] = "polled" /\ out[g].tag = "Ready")
              => /\ out[g].val = ReturnValue(g)
                 /\ future[g].state = "done"
                 /\ cells[co[g]] = IF future[g].pos = 0
                                   THEN NextResume(arg[g]) ELSE NextEmpty
        /\ \A i \in Tagged(g, "Completed") :
              results[g][i] = Completed(ReturnValue(g))
        /\ (future[g].body.kind = "script" /\ future[g].body.ys = <<>>
               /\ results[g] # <<>>)
              => results[g][1] = Completed(future[g].body.ret)

C8_Completed ==
    /\ []C8_CompletedState
    /\ [][\A g \in Made :
              (pc[g] = "polling" /\ pc'[g] = "polled" /\ out'[g].tag = "Ready")
              => cells' = cells]_vars

\* C8 witness: a body that never suspends and returns 42: the first step
\* returned Completed(42).
C8_Witness ==
    \E g \in Made :
        /\ future[g].body.ys = <<>> /\ future[g].body.ret = 42
        /\ Len(results[g]) = 1 /\ results[g][1] = Completed(42)
        /\ yielded[g] = <<>>

\* C9: when the body calls suspend(v), the poll returns with YieldValue(v) in
\* the driver's cell and that step call returns Yielded(v): the k-th Yielded
\* result is the k-th result and carries the argument of the body's k-th
\* suspend call; a scripted body's values come out in the order of its script.
C9_YieldDelivered ==
    \A g \in Made :
        /\ (pc[g] = "polled" /\ out[g].tag = "Pending")
              => /\ yielded[g] # <<>>
                 /\ cells[airlock[g]] = NextYield(yielded[g][Len(yielded[g])])
                 /\ Len(yielded[g]) = Len(results[g]) + 1
        /\ pc[g] = "idle" => Tagged(g, "Yielded") = 1..Len(yielded[g])
        /\ \A k \in 1..Len(yielded[g]) :
              /\ k <= Len(results[g]) => results[g][k] = Yielded(yielded[g][k])
              /\ future[g].body.kind = "script"
                    => yielded[g][k] = future[g].body.ys[k]

\* C9 witness: a body that suspends with 2, then with 1: Yielded(2), Yielded(1).
C9_Witness ==
    \E g \in Made :
        /\ yielded[g] = <<2, 1>>
        /\ Len(results[g]) >= 2
        /\ results[g][1] = Yielded(2) /\ results[g][2] = Yielded(1)

\* C10: a step call made through resume() is the step call resume_with(())
\* makes: it writes ResumeValue(()) into the cell and enters advance, leaving
\* the body and everything else as resume_with(()) does.
C10_ResumeIsResumeWithUnit ==
    [][\A g \in Gens :
          (via'[g] = "resume" /\ args'[g] # args[g]) => EnterEffect(g, UnitVal)]_vars

\* C10 witness: a generator of resume type () stepped through resume() has
\* returned Yielded, then Completed.
C10_Witness ==
    \E g \in Made :
        /\ rtype[g] = "unit" /\ via[g] = "resume"
        /\ pc[g] = "idle" /\ Len(results[g]) = 2
        /\ results[g][1].tag = "Yielded" /\ results[g][2].tag = "Completed"

\* The side that writes into the cell in this step: the driver (the write of
\* resume_with) or the body (the write of suspend).
DriverWrites(g) == args'[g] # args[g]
BodyWrites(g) == yielded'[g] # yielded[g]

\* C11 (as stated): every write into the Exchange Cell finds the value written
\* before it taken out: the cell is Empty at every write, the write of the
\* first ResumeValue and the write that follows it included.
C11_Original ==
    [][\A g \in Made :
          /\ DriverWrites(g) => cells[airlock[g]] = NextEmpty
          /\ BodyWrites(g) => cells[co[g]] = NextEmpty]_vars

\* C11 (amended): every YieldValue is taken out by the driver before the body
\* writes again, and every ResumeValue written while the body is paused in a
\* suspend call is taken out by that suspend before the driver writes again;
\* a value leaves the cell only by being taken by its addressee.  The
\* ResumeValue written by the first resume_with call has no suspend call
\* waiting for it: the body's first YieldValue overwrites it, or, when the body
\* finishes without suspending, it stays in the cell; a ResumeValue written
\* after the body has finished stays in the cell as well, until the next
\* (failing) resume_with call overwrites it.
C11_Alternates ==
    [][\A g \in Made :
          /\ BodyWrites(g)
                => cells[co[g]] = IF future[g].pos = 0
                                  THEN NextResume(args[g][1]) ELSE NextEmpty
          /\ DriverWrites(g)
                => cells[airlock[g]] =
                      IF future[g].state = "done"
                           /\ (future[g].pos = 0 \/ Len(args[g]) > CompletedAt(g))
                      THEN NextResume(args[g][Len(args[g])]) ELSE NextEmpty
          /\ (cells[airlock[g]].tag = "Yield" /\ cells'[airlock[g]] # cells[airlock[g]])
                => /\ cells'[airlock[g]] = NextEmpty
                   /\ results'[g] = Append(results[g], Yielded(cells[airlock[g]].val))
          /\ (cells[co[g]].tag = "Resume" /\ cells'[co[g]] = NextEmpty)
                => received'[g] = Append(received[g], cells[co[g]].val)]_vars

\* C11 witness: the body has made its second write, after the driver took the
\* first YieldValue and the first suspend took the ResumeValue of step 2.
C11_Witness ==
    \E g \in Made :
        /\ pc[g] = "polled" /\ out[g].tag = "Pending"
        /\ Len(yielded[g]) = 2 /\ Len(received[g]) = 1 /\ Len(results[g]) = 1
        /\ cells[co[g]] = NextYield(yielded[g][2])

\* C12 (as stated): while the driver does not resume after Completed, the
\* driver's write never finds a ResumeValue in the cell, and the body's write
\* finds neither a YieldValue nor a ResumeValue in it.
C12_Original ==
    [][\A g \in Made :
          /\ (DriverWrites(g) /\ CompletedAt(g) = 0)
                => cells[airlock[g]].tag # "Resume"
          /\ BodyWrites(g) => cells[co[g]].tag \notin {"Yield", "Resume"}]_vars

\* C12 (amended): while the driver does not resume after Completed, the
\* driver's write finds the cell Empty, never a pending ResumeValue, and the
\* body's write never finds a pending YieldValue; the write of the body's first
\* suspend call does find a ResumeValue, the argument of the first resume_with
\* call, which it overwrites; every later write of the body finds the cell
\* Empty.
C12_PutPrecondition ==
    [][\A g \in Made :
          /\ (DriverWrites(g) /\ CompletedAt(g) = 0)
                => cells[airlock[g]] = NextEmpty
          /\ BodyWrites(g)
                => /\ cells[co[g]].tag # "Yield"
                   /\ cells[co[g]].tag = "Resume" <=> Len(yielded[g]) = 0
                   /\ Len(yielded[g]) = 0
                         => Len(args[g]) = 1 /\ cells[co[g]] = NextResume(arg[g])]_vars

\* C12 witness: the first suspend call of the body has written its YieldValue
\* during the first step.
C12_Witness ==
    \E g \in Made :
        /\ pc[g] = "polled" /\ out[g].tag = "Pending"
        /\ Len(args[g]) = 1 /\ Len(yielded[g]) = 1
        /\ cells[co[g]] = NextYield(yielded[g][1])

\* C13: a second write of the same direction into the Exchange Cell before the
\* pending value was read (the driver writing while a value is pending, the
\* body writing over its own pending YieldValue) is detected: the pending
\* value is not overwritten and the call fails at the write.
C13_DoubleWriteDetected ==
    [][\A g \in Made :
          ((DriverWrites(g) /\ cells[airlock[g]] # NextEmpty)
              \/ (BodyWrites(g) /\ cells[co[g]].tag = "Yield"))
          => /\ cells' = cells
             /\ results'[g] = Append(results[g], Panicked)]_vars

\* C14: whenever the poll made by a step call returns not-yet-done, the body
\* has made exactly one suspend call during that poll (its n-th, in step n)
\* and is paused in it, and the driver's cell holds a YieldValue, not Empty
\* and not the ResumeValue the driver wrote; the take that follows obtains a
\* yielded value: the step returns Yielded.
C14_PendingState ==
    \A g \in Made :
        (pc[g] = "polled" /\ out[g].tag = "Pending")
        => /\ cells[airlock[g]].tag = "Yield"
           /\ cells[airlock[g]] # ResumeCell(arg[g])
           /\ future[g].state = "suspended"
           /\ future[g].pos = Len(args[g])
           /\ Len(yielded[g]) = Len(args[g])
           /\ Len(results[g]) = Len(args[g]) - 1

BodyActive(g) == future[g].state = "running"
DriverActive(g) == pc[g] \in {"idle", "advance", "polled"}

\* C15: in every state exactly one of the two sides is active; the body runs
\* only inside a step call, between the poll and its return; the caller gets
\* control back only with the body paused in a suspend call or finished (or
\* not yet started, before the first step); and a step call, once entered,
\* runs to its return without the caller making another call or dropping
\* the generator.
C15_OneSideState ==
    \A g \in Made :
        /\ BodyActive(g) # DriverActive(g)
        /\ BodyActive(g) <=> pc[g] = "polling"
        /\ pc[g] = "idle"
              => /\ future[g].state \in {"unstarted", "suspended", "done"}
                 /\ future[g].state = "unstarted" <=> args[g] = <<>>
                 /\ Len(results[g]) = Len(args[g])
        /\ pc[g] # "idle" => Len(results[g]) = Len(args[g]) - 1

C15_OneSideActive ==
    /\ []C15_OneSideState
    /\ [][\A g \in Made :
              /\ future'[g] # future[g] => pc[g] \in {"advance", "polling"}
              /\ pc[g] # "idle" => args'[g] = args[g] /\ alive'[g] = alive[g]]_vars

\* C15 witness: the body is running, re-entered by the second step call,
\* which has not returned.
C15_Witness ==
    \E g \in Made :
        /\ BodyActive(g) /\ pc[g] = "polling"
        /\ future[g].pos = 1 /\ Len(args[g]) = 2 /\ Len(results[g]) = 1

\* The moves of a step call: the write, the poll (which a finished future
\* fails at once), the body's run inside the poll, the return after the poll.
StepMoves ==
    {<<"idle", "advance">>, <<"advance", "polling">>, <<"advance", "idle">>,
     <<"polling", "polled">>, <<"polled", "idle">>}

\* C16: resume_with(arg) writes ResumeValue(arg) before the future is polled:
\* when the poll is made, and when a body that starts in this step begins to
\* run, the cell that Gen and Co share holds exactly ResumeValue(arg), arg
\* being the argument of this step; and each step call polls the future
\* exactly once: the poll follows the write, and the call returns after it
\* without a second poll.
C16_WriteState ==
    \A g \in Made :
        /\ pc[g] # "idle" => arg[g] = args[g][Len(args[g])]
        /\ pc[g] = "advance"
              => /\ cells[airlock[g]] = NextResume(arg[g])
                 /\ cells[co[g]] = NextResume(arg[g])
        /\ (pc[g] = "polling" /\ future[g].pos = 0)
              => cells[co[g]] = NextResume(arg[g])

C16_WriteBeforePoll ==
    /\ []C16_WriteState
    /\ [][\A g \in Made :
              /\ pc'[g] # pc[g] => <<pc[g], pc'[g]>> \in StepMoves
              /\ pc'[g] = "advance" <=> DriverWrites(g)
              /\ DriverWrites(g) => future'[g] = future[g]
              /\ future'[g].state # future[g].state => pc[g] # "idle"]_vars

\* C16 witness: the second step call has written ResumeValue(20) and is about
\* to poll the future, whose body is paused in its first suspend call.
C16_Witness ==
    \E g \in Made :
        /\ pc[g] = "advance" /\ Len(args[g]) = 2 /\ arg[g] = 20
        /\ future[g].state = "suspended"
        /\ cells[airlock[g]] = NextResume(20)

\* C17: Gen::new does not run the body.  Until the first step call the future
\* is unstarted, no suspend call was made or has returned, nothing was
\* yielded or returned, and the cell, one cell shared by the Gen and the Co
\* of its body, is Empty; the body starts in the first step call, at its poll.
C17_ConstructedState ==
    \A g \in Made :
        /\ airlock[g] = co[g]
        /\ args[g] = <<>>
              => /\ future[g].state = "unstarted" /\ future[g].pos = 0
                 /\ yielded[g] = <<>> /\ received[g] = <<>> /\ results[g] = <<>>
                 /\ pc[g] = "idle" /\ out[g] = PollNone
                 /\ cells[airlock[g]] = NextEmpty
        /\ (pc[g] = "advance" /\ Len(args[g]) = 1)
              => future[g].state = "unstarted" /\ yielded[g] = <<>>

C17_NewDoesNotRun ==
    /\ []C17_ConstructedState
    /\ [][\A g \in Made :
              (future[g].state = "unstarted" /\ future'[g].state # "unstarted")
              => /\ pc[g] = "advance" /\ Len(args[g]) = 1
                 /\ future'[g].state = "running"]_vars

\* C17 witness: the body has just started, inside the first step call; it has
\* made no suspend call yet and finds the argument of the step in the cell.
C17_Witness ==
    \E g \in Made :
        /\ pc[g] = "polling" /\ Len(args[g]) = 1
        /\ future[g].state = "running" /\ future[g].pos = 0
        /\ yielded[g] = <<>> /\ results[g] = <<>>
        /\ cells[co[g]] = NextResume(arg[g])

\* C18: a body that makes exactly k suspend calls and then returns makes its
\* first k step calls return Yielded and step call k+1 return Completed; with
\* a caller that keeps stepping, that Completed is eventually reported.
C18_AtStepKPlus1 ==
    \A g \in Made : future[g].body.kind = "script" =>
        LET k == Len(future[g].body.ys) IN
        /\ \A i \in 1..Len(results[g]) :
              /\ i <= k => results[g][i] = Yielded(future[g].body.ys[i])
              /\ i = k + 1 => results[g][i] = Completed(future[g].body.ret)
        /\ CompletedAt(g) \in {0, k + 1}
        /\ CompletedAt(g) = 0 => Len(results[g]) <= k

C18_Reported ==
    \A g \in Made : CompletedAt(g) = Len(future[g].body.ys) + 1

C18_CompletesAtKPlus1 == []C18_AtStepKPlus1 /\ <>C18_Reported

\* C18 witness: a body with two suspend calls, stepped through resume():
\* Yielded, Yielded, and Completed from the third call.
C18_Witness ==
    \E g \in Made :
        /\ Len(future[g].body.ys) = 2 /\ rtype[g] = "unit"
        /\ pc[g] = "idle" /\ Len(results[g]) = 3 /\ CompletedAt(g) = 3

\* C19: dropping the Gen while the body is paused in a suspend call ends the
\* coroutine.  The drop itself runs no body code and tells the body nothing;
\* after it the body stays paused where it was, its pending suspend call never
\* returns, no step call is made and no result is produced.
C19_DroppedState ==
    \A g \in Made : alive[g] = "dropped" =>
        /\ pc[g] = "idle"
        /\ future[g].state # "running"
        /\ future[g].state = "suspended"
              => /\ Len(received[g]) = future[g].pos - 1
                 /\ Len(yielded[g]) = future[g].pos
                 /\ Len(results[g]) = future[g].pos
                 /\ Tagged(g, "Completed") = {}

C19_DropCancels ==
    /\ []C19_DroppedState
    /\ [][\A g \in Made :
              (alive[g] = "dropped" \/ alive'[g] = "dropped")
              => /\ alive'[g] = "dropped"
                 /\ future'[g] = future[g]
                 /\ received'[g] = received[g]
                 /\ yielded'[g] = yielded[g]
                 /\ results'[g] = results[g]
                 /\ args'[g] = args[g]
                 /\ pc'[g] = pc[g]]_vars

\* C19 witness: a Gen dropped with its body paused in the second suspend call,
\* whose first suspend call had returned.
C19_Witness ==
    \E g \in Made :
        /\ alive[g] = "dropped"
        /\ future[g].state = "suspended" /\ future[g].pos = 2
        /\ Len(received[g]) = 1 /\ Len(results[g]) = 2

\* What the body handed the inputs as[2..i-1] has accumulated.
RECURSIVE EchoSum(_, _)
EchoSum(as, i) == IF i <= 2 THEN 0 ELSE EchoSum(as, i - 1) + 2 * as[i - 1]

\* The result of step i of a generator with body b stepped alone with the
\* arguments as.
SoloResult(b, as, i) ==
    IF b.kind = "script"
    THEN IF i <= Len(b.ys) THEN Yielded(b.ys[i])
         ELSE IF i = Len(b.ys) + 1 THEN Completed(b.ret) ELSE Panicked
    ELSE IF i = 1 THEN Yielded(b.ys[1])
         ELSE IF \E j \in 2..(i - 1) : as[j] = 0 THEN Panicked
         ELSE IF as[i] = 0 THEN Completed(EchoSum(as, i))
         ELSE Yielded(2 * as[i])

\* C20: each Gen::new call creates a cell of its own, shared by that Gen and
\* the Co of its body only; a step of one generator (each move of its
\* resume_with call) leaves the cell, the body and the results of every other
\* generator unchanged; and the results of a generator stepped in any
\* interleaving with another are those it returns when stepped alone.
C20_OwnCellState ==
    \A g \in Made :
        /\ co[g] = airlock[g]
        /\ \A h \in Made \ {g} : airlock[h] # airlock[g] /\ co[h] # airlock[g]
        /\ \A i \in 1..Len(results[g]) :
              results[g][i] = SoloResult(future[g].body, args[g], i)

C20_Isolation ==
    /\ []C20_OwnCellState
    /\ [][\A g \in Made : \A h \in Made \ {g} :
              pc'[g] # pc[g]
              => /\ cells'[airlock[h]] = cells[airlock[h]]
                 /\ future'[h] = future[h]
                 /\ pc'[h] = pc[h]
                 /\ results'[h] = results[h]
                 /\ received'[h] = received[h]
                 /\ yielded'[h] = yielded[h]]_vars

\* C20 witness: one generator has finished after two Yielded while the other,
\* stepped in between, is inside its second step call with its body running.
C20_Witness ==
    /\ Made = {1, 2}
    /\ Len(results[1]) = 3 /\ results[1][3].tag = "Completed"
    /\ pc[2] = "polling" /\ Len(results[2]) = 1 /\ future[2].pos = 1
    /\ cells[airlock[1]] = NextEmpty

====
